---------------------------- MODULE Spec2Model ----------------------------
(***************************************************************************)
(* Model of joeywhelan/workitem: the Gmail OAuth2 authorisation            *)
(* (src/gmail.js), the inContact work-item client and the main driver      *)
(* chain (src/workitem.js).                                                *)
(*                                                                         *)
(* Granularity: one action per I/O completion (file read, operator input,  *)
(* HTTP response, body read).  Node runs every promise reaction queued by  *)
(* a completion before it delivers the next completion, so an action holds *)
(* the completion's callback and the whole chain of then/catch handlers    *)
(* that runs up to the next pending I/O.                                   *)
(***************************************************************************)
EXTENDS Integers, Sequences, FiniteSets, TLC

\* Largest number of message ids an inbox listing returns in the model.
MaxMsgs == 2

VARIABLES
    credentialFile,  \* the credential file on disk
    tokenFile,       \* the token file on disk
    tokenFile0,      \* the token file as it was when the run started
    oAuth2Client,    \* Gmail.oAuth2Client: null, or the client and its credentials
    authPc,          \* where authorize() is
    authErr,         \* what authorize() rejected with
    raised,          \* the first error raised inside authorize()
    handshake,       \* number of calls of _getNewToken()
    prompts,         \* number of rl.question() prompts put to the operator
    exchanges,       \* number of oAuth2Client.getToken(code) round trips
    writes,          \* number of writeFile(tokenFile) calls
    mainPc,          \* where the driver chain is
    msgs,            \* what getMessageList() resolved with
    procs,           \* one record per processMessage(id) call, in listing order
    tokenReqs,       \* number of WorkItem.getToken() requests issued
    workItems,       \* work items the ticketing server has created
    batch,           \* the Promise.all(p) of the driver
    console          \* what the driver's last handler printed

authVars == <<credentialFile, tokenFile, tokenFile0, oAuth2Client, authPc, authErr,
              raised, handshake, prompts, exchanges, writes>>
runVars == <<mainPc, msgs, procs, tokenReqs, workItems, batch, console>>
vars == <<authVars, runVars>>

---------------------------------------------------------------------------
\* Values

\* A JavaScript Error: constructor name, err.code, err.message and, for the
\* 'response status: <n>' messages, the number n.  The error object's identity
\* is the call that raised it: where, and of, the processMessage() call it was
\* raised in (0 outside of one).
Err(name, code, message, status, where) ==
    [name |-> name, code |-> code, message |-> message, status |-> status,
     where |-> where, of |-> 0]

NoErr == Err("none", "none", "none", 0, "none")

\* A file's content: text that is JSON for a value, or text that is no JSON.
Garbage == [json |-> FALSE, value |-> "garbage"]

JSONstringify(value) == [json |-> TRUE, value |-> value]

\* JSON.parse(text): the value, or a SyntaxError
JSONparse(text, where) ==
    IF text.json
    THEN [ok |-> TRUE, value |-> text.value, err |-> NoErr]
    ELSE [ok |-> FALSE, value |-> "none",
          err |-> Err("SyntaxError", "none", "Unexpected token", 0, where)]

\* Tokens the OAuth2 session can hold.
NoToken == "none"
StoredToken == "tokenOnFile"
NewToken == "tokenFromExchange"

\* What the credential file can hold: no JSON, JSON without `installed`,
\* the credentials.  What the token file can hold: no JSON, a token.
CredentialContents == {Garbage, JSONstringify("{}"), JSONstringify("credentials")}
TokenContents == {Garbage, JSONstringify(StoredToken)}

NoFile == [exists |-> FALSE, readable |-> FALSE, content |-> Garbage]

Files(contents) ==
    {NoFile}
    \cup [exists : {TRUE}, readable : {FALSE}, content : {Garbage}]
    \cup [exists : {TRUE}, readable : {TRUE}, content : contents]

\* fs.readFile promisified: the content, or ENOENT / EACCES
readFileAsync(file, where) ==
    IF ~file.exists
    THEN [ok |-> FALSE, data |-> Garbage,
          err |-> Err("Error", "ENOENT", "no such file or directory", 0, where)]
    ELSE IF ~file.readable
    THEN [ok |-> FALSE, data |-> Garbage,
          err |-> Err("Error", "EACCES", "permission denied", 0, where)]
    ELSE [ok |-> TRUE, data |-> file.content, err |-> NoErr]

NullClient == [created |-> FALSE, credentials |-> NoToken]

NoOutput == [kind |-> "none", err |-> NoErr, results |-> <<>>]

NoBatch == [state |-> "none", err |-> NoErr, results |-> <<>>]

Init ==
    /\ credentialFile \in Files(CredentialContents)
    /\ tokenFile \in Files(TokenContents)
    /\ tokenFile0 = tokenFile
    /\ oAuth2Client = NullClient
    /\ authPc = "new"
    /\ authErr = NoErr
    /\ raised = NoErr
    /\ handshake = 0
    /\ prompts = 0
    /\ exchanges = 0
    /\ writes = 0
    /\ mainPc = "start"
    /\ msgs = <<>>
    /\ procs = <<>>
    /\ tokenReqs = 0
    /\ workItems = {}
    /\ batch = NoBatch
    /\ console = NoOutput

---------------------------------------------------------------------------
\* Gmail.authorize (src/gmail.js)

\* The driver's chain without its last handler: the rejection is handled by
\* nobody and ends the process.
driver_nocatch(err) ==
    /\ console' = console
    /\ mainPc' = "unhandledRejection"

\* The driver's last handler, .catch((err) => console.log(err))
driver_catch(err) ==
    /\ console' = [kind |-> "error", err |-> err, results |-> <<>>]
    /\ mainPc' = "done"

\* authorize() resolves: the driver's first then calls getMessageList()
authorize_resolved ==
    /\ authPc' = "resolved"
    /\ authErr' = NoErr
    /\ mainPc' = "getMessageList"
    /\ console' = console

\* authorize() rejects: the driver's thens are skipped, its catch runs
authorize_rejected(err) ==
    /\ authPc' = "rejected"
    /\ authErr' = err
    /\ driver_catch(err)

\* _getNewToken(), up to the prompt of _ask().  The executor reads
\* this.oAuth2Client.generateAuthUrl: with the client still null it throws a
\* TypeError, which rejects the promise before anything is asked.
_getNewToken ==
    /\ handshake' = handshake + 1
    /\ IF oAuth2Client.created
       THEN /\ prompts' = prompts + 1
            /\ authPc' = "_ask"
            /\ UNCHANGED <<authErr, mainPc, console>>
       ELSE /\ prompts' = prompts
            /\ authorize_rejected(
                 Err("TypeError", "none", "Cannot read property of null", 0, "_getNewToken"))

\* The catch of authorize(): ENOENT starts the handshake, anything else is
\* logged and thrown again.
authorize_catch(err) ==
    IF err.code = "ENOENT"
    THEN _getNewToken
    ELSE /\ authorize_rejected(err)
         /\ UNCHANGED <<handshake, prompts>>

\* The driver calls gmail.authorize(): the credential file read is issued.
authorize ==
    /\ mainPc = "start"
    /\ authPc = "new"
    /\ mainPc' = "authorize"
    /\ authPc' = "readCredential"
    /\ UNCHANGED <<credentialFile, tokenFile, tokenFile0, oAuth2Client, authErr, raised,
                   handshake, prompts, exchanges, writes>>
    /\ UNCHANGED <<msgs, procs, tokenReqs, workItems, batch, console>>

\* The first then of authorize(): parse the credentials, create the client,
\* issue the read of the token file.
authorize_credentials(cred) ==
    LET parsed == JSONparse(cred, "credentialFile") IN
    IF ~parsed.ok
    THEN [ok |-> FALSE, err |-> parsed.err]
    ELSE IF parsed.value # "credentials"
    THEN [ok |-> FALSE,
          err |-> Err("TypeError", "none", "Cannot destructure undefined", 0, "credentialFile")]
    ELSE [ok |-> TRUE, err |-> NoErr]

\* readFileAsync(this.credentialFile) completes.
authorize_readCredential ==
    /\ authPc = "readCredential"
    /\ LET read == readFileAsync(credentialFile, "credentialFile")
           made == authorize_credentials(read.data)
       IN  IF read.ok /\ made.ok
           THEN /\ oAuth2Client' = [created |-> TRUE, credentials |-> NoToken]
                /\ authPc' = "readToken"
                /\ UNCHANGED <<authErr, raised, handshake, prompts, mainPc, console>>
           ELSE LET err == IF read.ok THEN made.err ELSE read.err IN
                /\ raised' = err
                /\ authorize_catch(err)
                /\ UNCHANGED oAuth2Client
    /\ UNCHANGED <<credentialFile, tokenFile, tokenFile0, exchanges, writes>>
    /\ UNCHANGED <<msgs, procs, tokenReqs, workItems, batch>>

\* authorize_readToken with the stored token read but never applied to the
\* session (setCredentials left out).
authorize_readToken_unapplied ==
    /\ authPc = "readToken"
    /\ LET read == readFileAsync(tokenFile, "tokenFile")
           parsed == JSONparse(read.data, "tokenFile")
       IN  IF read.ok /\ parsed.ok
           THEN /\ authorize_resolved
                /\ UNCHANGED <<oAuth2Client, raised, handshake, prompts>>
           ELSE LET err == IF read.ok THEN parsed.err ELSE read.err IN
                /\ raised' = err
                /\ authorize_catch(err)
                /\ UNCHANGED oAuth2Client
    /\ UNCHANGED <<credentialFile, tokenFile, tokenFile0, exchanges, writes>>
    /\ UNCHANGED <<msgs, procs, tokenReqs, workItems, batch>>

\* readFileAsync(this.tokenFile) completes: the second then of authorize()
\* applies the stored token, or the catch runs.
authorize_readToken ==
    /\ authPc = "readToken"
    /\ LET read == readFileAsync(tokenFile, "tokenFile")
           parsed == JSONparse(read.data, "tokenFile")
       IN  IF read.ok /\ parsed.ok
           THEN /\ oAuth2Client' = [oAuth2Client EXCEPT !.credentials = parsed.value]
                /\ authorize_resolved
                /\ UNCHANGED <<raised, handshake, prompts>>
           ELSE LET err == IF read.ok THEN parsed.err ELSE read.err IN
                /\ raised' = err
                /\ authorize_catch(err)
                /\ UNCHANGED oAuth2Client
    /\ UNCHANGED <<credentialFile, tokenFile, tokenFile0, exchanges, writes>>
    /\ UNCHANGED <<msgs, procs, tokenReqs, workItems, batch>>

\* The operator answers the prompt of _ask(): the code is handed to
\* oAuth2Client.getToken(code, callback).
_ask ==
    /\ authPc = "_ask"
    /\ authPc' = "getToken"
    /\ exchanges' = exchanges + 1
    /\ UNCHANGED <<credentialFile, tokenFile, tokenFile0, oAuth2Client, authErr, raised,
                   handshake, prompts, writes>>
    /\ UNCHANGED runVars

\* _getNewToken_exchange with the callback's err never looked at: whatever
\* came back is applied and written.
_getNewToken_exchange_unchecked ==
    /\ authPc = "getToken"
    /\ \E ok \in BOOLEAN :
         /\ oAuth2Client' = [oAuth2Client EXCEPT
                                !.credentials = IF ok THEN NewToken ELSE NoToken]
         /\ writes' = writes + 1
         /\ authPc' = "writeFile"
         /\ UNCHANGED <<authErr, raised, mainPc, console>>
    /\ UNCHANGED <<credentialFile, tokenFile, tokenFile0, handshake, prompts, exchanges>>
    /\ UNCHANGED <<msgs, procs, tokenReqs, workItems, batch>>

\* _getNewToken_exchange with the write of the token file issued on the token
\* before it is set on the client.
_getNewToken_exchange_writeFirst ==
    /\ authPc = "getToken"
    /\ \E ok \in BOOLEAN :
         IF ok
         THEN /\ writes' = writes + 1
              /\ authPc' = "writeFile"
              /\ UNCHANGED <<oAuth2Client, authErr, raised, mainPc, console>>
         ELSE LET err == Err("Error", "none", "invalid_grant", 0, "getToken") IN
              /\ authorize_rejected(err)
              /\ raised' = IF raised = NoErr THEN err ELSE raised
              /\ UNCHANGED <<oAuth2Client, writes>>
    /\ UNCHANGED <<credentialFile, tokenFile, tokenFile0, handshake, prompts, exchanges>>
    /\ UNCHANGED <<msgs, procs, tokenReqs, workItems, batch>>

\* _getNewToken_exchange with a callback that on err neither rejects nor
\* resolves: the promise of the exchange stays pending.
_getNewToken_exchange_unsettled ==
    /\ authPc = "getToken"
    /\ \E ok \in BOOLEAN :
         IF ok
         THEN /\ oAuth2Client' = [oAuth2Client EXCEPT !.credentials = NewToken]
              /\ writes' = writes + 1
              /\ authPc' = "writeFile"
              /\ UNCHANGED <<authErr, raised, mainPc, console>>
         ELSE /\ authPc' = "pending"
              /\ UNCHANGED <<oAuth2Client, writes, authErr, raised, mainPc, console>>
    /\ UNCHANGED <<credentialFile, tokenFile, tokenFile0, handshake, prompts, exchanges>>
    /\ UNCHANGED <<msgs, procs, tokenReqs, workItems, batch>>

\* The token endpoint answers.  On an error the promise rejects and the catch
\* of _getNewToken() rejects authorize(); on a token it is applied to the
\* session and the write of the token file is issued.
_getNewToken_exchange ==
    /\ authPc = "getToken"
    /\ \E ok \in BOOLEAN :
         IF ok
         THEN /\ oAuth2Client' = [oAuth2Client EXCEPT !.credentials = NewToken]
              /\ writes' = writes + 1
              /\ authPc' = "writeFile"
              /\ UNCHANGED <<authErr, raised, mainPc, console>>
         ELSE LET err == Err("Error", "none", "invalid_grant", 0, "getToken") IN
              /\ authorize_rejected(err)
              /\ raised' = IF raised = NoErr THEN err ELSE raised
              /\ UNCHANGED <<oAuth2Client, writes>>
    /\ UNCHANGED <<credentialFile, tokenFile, tokenFile0, handshake, prompts, exchanges>>
    /\ UNCHANGED <<msgs, procs, tokenReqs, workItems, batch>>

\* _getNewToken_write with the token object handed to writeFile as it is: what
\* lands on disk is no JSON.
_getNewToken_write_unserialised ==
    /\ authPc = "writeFile"
    /\ \E ok \in BOOLEAN :
         IF ok
         THEN /\ tokenFile' = [exists |-> TRUE, readable |-> TRUE, content |-> Garbage]
              /\ authorize_resolved
              /\ UNCHANGED raised
         ELSE LET err == Err("Error", "EACCES", "permission denied", 0, "writeFile") IN
              /\ authorize_rejected(err)
              /\ UNCHANGED <<tokenFile, raised>>
    /\ UNCHANGED <<credentialFile, tokenFile0, oAuth2Client, handshake, prompts,
                   exchanges, writes>>
    /\ UNCHANGED <<msgs, procs, tokenReqs, workItems, batch>>

\* writeFileAsync(this.tokenFile, JSON.stringify(token)) completes.
_getNewToken_write ==
    /\ authPc = "writeFile"
    /\ \E ok \in BOOLEAN :
         IF ok
         THEN /\ tokenFile' = [exists |-> TRUE, readable |-> TRUE,
                               content |-> JSONstringify(oAuth2Client.credentials)]
              /\ authorize_resolved
              /\ UNCHANGED raised
         ELSE LET err == Err("Error", "EACCES", "permission denied", 0, "writeFile") IN
              /\ authorize_rejected(err)
              /\ UNCHANGED <<tokenFile, raised>>
    /\ UNCHANGED <<credentialFile, tokenFile0, oAuth2Client, handshake, prompts,
                   exchanges, writes>>
    /\ UNCHANGED <<msgs, procs, tokenReqs, workItems, batch>>

---------------------------------------------------------------------------
\* Gmail.getMessageList, Gmail.getMessage (src/gmail.js)

MsgIds == 1 .. MaxMsgs

\* Sequences of distinct message ids
Listings ==
    {l \in UNION {[1 .. n -> MsgIds] : n \in 0 .. MaxMsgs} :
        \A i, j \in DOMAIN l : i # j => l[i] # l[j]}

\* What users.messages.list calls back with: an error, a response whose data
\* has no `messages`, or a response with the ids.
ListResponses ==
    {[failed |-> TRUE, hasMessages |-> FALSE, messages |-> <<>>],
     [failed |-> FALSE, hasMessages |-> FALSE, messages |-> <<>>]}
    \cup [failed : {FALSE}, hasMessages : {TRUE}, messages : Listings]

\* The value of a From header, as the pieces the pattern of getMessage() tells
\* apart: the address-shaped ones are those of Addresses.
Addresses == {"a@b.com", "c@d.com"}
FromValues == {<<"A B">>, <<"A B", "a@b.com">>, <<"a@b.com", "c@d.com">>}

\* body.data in base64; "" when the body holds no data
BodyData == {"", "aGVsbG8"}

atob(data) == IF data = "aGVsbG8" THEN "hello" ELSE "undecodable"

\* What users.messages.get calls back with for message id: an error, or the
\* message resource.
MessageResponses(id) ==
    {[failed |-> TRUE, id |-> id, hasFrom |-> FALSE, fromValue |-> <<>>, data |-> ""]}
    \cup [failed : {FALSE}, id : {id}, hasFrom : {FALSE}, fromValue : {<<>>}, data : {""}]
    \cup [failed : {FALSE}, id : {id}, hasFrom : {TRUE}, fromValue : FromValues, data : BodyData]

NoMsg == [id |-> 0, from |-> "", payload |-> ""]

\* String.match(/(...@...)/gi): the address-shaped pieces, in order; <<>> for null
match(value) == SelectSeq(value, LAMBDA piece : piece \in Addresses)

\* getMessage(): the callback and the then of lines 114-130.
getMessage_then(res) ==
    IF res.failed
    THEN [ok |-> FALSE, msg |-> NoMsg,
          err |-> Err("Error", "none", "gmail api error", 0, "getMessage")]
    ELSE IF ~res.hasFrom
    THEN [ok |-> FALSE, msg |-> NoMsg,
          err |-> Err("TypeError", "none", "Cannot read property of undefined", 0, "getMessage")]
    ELSE LET arr == match(res.fromValue) IN
         [ok |-> TRUE,
          msg |-> [id |-> res.id,
                   from |-> IF arr # <<>> THEN arr[1] ELSE "",
                   payload |-> IF res.data # "" THEN atob(res.data) ELSE ""],
          err |-> NoErr]

---------------------------------------------------------------------------
\* WorkItem (src/workitem.js)

Statuses == {200, 404, 500}

\* response.ok
responseOk(status) == status >= 200 /\ status <= 299

\* What fetch() settles with: a rejection (the request failed), or a response.
FetchResponses ==
    {[failed |-> TRUE, status |-> 0]} \cup [failed : {FALSE}, status : Statuses]

\* No response yet
NoResponse == [failed |-> FALSE, status |-> 0]

\* The first then of getToken() and of postWorkItem(): response.json() is
\* issued for an ok response, anything else throws 'response status: <n>'.
response_then(r, where) ==
    IF r.failed
    THEN [ok |-> FALSE, err |-> Err("FetchError", "none", "request failed", 0, where)]
    ELSE IF responseOk(r.status)
    THEN [ok |-> TRUE, err |-> NoErr]
    ELSE [ok |-> FALSE, err |-> Err("Error", "none", "response status", r.status, where)]

\* What response.json() of the token endpoint settles with for the request of
\* processMessage() number req: no JSON, null, or an object with or without
\* access_token (0: absent; the token issued to that request is named req) and
\* resource_server_base_uri ("": absent).
TokenBodies(req) ==
    {[json |-> FALSE, null |-> FALSE, access_token |-> 0, resource_server_base_uri |-> ""],
     [json |-> TRUE, null |-> TRUE, access_token |-> 0, resource_server_base_uri |-> ""]}
    \cup [json : {TRUE}, null : {FALSE}, access_token : {0, req},
          resource_server_base_uri : {"", "https://api/"}]

\* No body read yet
NoData == [json |-> FALSE, null |-> TRUE, access_token |-> 0, resource_server_base_uri |-> ""]

\* getToken_then with only the token looked for, the uri forgotten.
getToken_then_tokenOnly(body) ==
    IF ~body.json
    THEN [ok |-> FALSE, err |-> Err("FetchError", "none", "invalid json", 0, "getToken")]
    ELSE IF ~body.null /\ body.access_token # 0
    THEN [ok |-> TRUE, err |-> NoErr]
    ELSE [ok |-> FALSE, err |-> Err("Error", "none", "missing token and/or uri", 0, "getToken")]

\* The second then of getToken(), lines 55-63.
getToken_then(body) ==
    IF ~body.json
    THEN [ok |-> FALSE, err |-> Err("FetchError", "none", "invalid json", 0, "getToken")]
    ELSE IF ~body.null /\ body.access_token # 0 /\ body.resource_server_base_uri # ""
    THEN [ok |-> TRUE, err |-> NoErr]
    ELSE [ok |-> FALSE, err |-> Err("Error", "none", "missing token and/or uri", 0, "getToken")]

ContactIds == {"contact1", "contact2"}

\* What response.json() of the work-item endpoint settles with: no JSON, null,
\* or an object with or without contactId.
WorkItemBodies ==
    {[json |-> FALSE, null |-> FALSE, contactId |-> "undefined"],
     [json |-> TRUE, null |-> TRUE, contactId |-> "undefined"]}
    \cup [json : {TRUE}, null : {FALSE}, contactId : ContactIds \cup {"undefined"}]

\* No body read yet
NoJson == [json |-> FALSE, null |-> TRUE, contactId |-> "undefined"]

\* postWorkItem_then with the contact id looked for, as getToken() looks for
\* its fields: a body without it throws.
postWorkItem_then_checked(body) ==
    IF ~body.json
    THEN [ok |-> FALSE, contactId |-> "undefined",
          err |-> Err("FetchError", "none", "invalid json", 0, "postWorkItem")]
    ELSE IF body.null
    THEN [ok |-> FALSE, contactId |-> "undefined",
          err |-> Err("TypeError", "none", "Cannot read property of null", 0, "postWorkItem")]
    ELSE IF body.contactId = "undefined"
    THEN [ok |-> FALSE, contactId |-> "undefined",
          err |-> Err("Error", "none", "missing contactId", 0, "postWorkItem")]
    ELSE [ok |-> TRUE, contactId |-> body.contactId, err |-> NoErr]

\* The second then of postWorkItem(), lines 109-111.
postWorkItem_then(body) ==
    IF ~body.json
    THEN [ok |-> FALSE, contactId |-> "undefined",
          err |-> Err("FetchError", "none", "invalid json", 0, "postWorkItem")]
    ELSE IF body.null
    THEN [ok |-> FALSE, contactId |-> "undefined",
          err |-> Err("TypeError", "none", "Cannot read property of null", 0, "postWorkItem")]
    ELSE [ok |-> TRUE, contactId |-> body.contactId, err |-> NoErr]

---------------------------------------------------------------------------
\* The driver: processMessage and the chain of lines 182-198 (src/workitem.js)

\* processMessage with the token asked for at once, beside the fetch.
processMessage_eager(id) ==
    [id |-> id, pc |-> "getMessage", msg |-> NoMsg, tokenReq |-> 0,
     tokenResponse |-> NoResponse, data |-> NoData, token |-> 0,
     postResponse |-> NoResponse, json |-> NoJson, err |-> NoErr, contactId |-> "undefined",
     gets |-> 1, tokens |-> 1, posts |-> 0, overtook |-> FALSE]

\* processMessage(id): gmail.getMessage(id) is issued.  A record holds
\*   id         the id processMessage() was called with
\*   pc         the pending call, or "fulfilled" / "rejected"
\*   msg        the arguments of the pending sendEmail(), until its post is answered
\*   tokenReq   the getToken() request made for it (0: none yet)
\*   tokenResponse, data   what the token endpoint answered, and the body read
\*   token      the token its post was issued with (0: none yet)
\*   postResponse, json   what the work-item endpoint answered, and the body read
\*   err        what it rejected with
\*   contactId  what it fulfilled with
\*   gets, tokens, posts   how many of each request it has issued
\*   overtook   it fulfilled while one listed before it had not yet
processMessage(id) ==
    [id |-> id, pc |-> "getMessage", msg |-> NoMsg, tokenReq |-> 0,
     tokenResponse |-> NoResponse, data |-> NoData, token |-> 0,
     postResponse |-> NoResponse, json |-> NoJson, err |-> NoErr, contactId |-> "undefined",
     gets |-> 1, tokens |-> 0, posts |-> 0, overtook |-> FALSE]

\* workItem.sendEmail(msg.id, msg.from, msg.payload): getToken() is issued, as
\* request req.
sendEmail(p, msg, req) ==
    [p EXCEPT !.pc = "getToken", !.msg = msg, !.tokenReq = req, !.tokens = @ + 1]

\* sendEmail_then with the token kept on the WorkItem object and used again:
\* the post goes out with the first token any post was issued with.
sendEmail_then_cached(p, data) ==
    LET held == {procs[j].token : j \in DOMAIN procs} \ {0} IN
    [p EXCEPT !.pc = "postWorkItem",
              !.token = IF held = {} THEN data.access_token ELSE CHOOSE t \in held : TRUE,
              !.posts = @ + 1]

\* The then of sendEmail(), lines 133-137: postWorkItem() is issued with the
\* token of the response.
sendEmail_then(p, data) ==
    [p EXCEPT !.pc = "postWorkItem", !.token = data.access_token, !.posts = @ + 1]

\* rejected with a failed post sent once more before giving up.
rejected_retry(p, i, err) ==
    IF p.pc = "postWorkItem" /\ p.posts < 2
    THEN [p EXCEPT !.posts = @ + 1]
    ELSE [p EXCEPT !.pc = "rejected", !.msg = NoMsg, !.err = [err EXCEPT !.of = i]]

\* rejected with a catch that throws an error of its own instead of the one
\* it caught.
rejected_wrapped(p, i, err) ==
    [p EXCEPT !.pc = "rejected", !.msg = NoMsg,
              !.err = [Err("Error", "none", "sendEmail failed", 0, err.where) EXCEPT !.of = i]]

\* A then that threw or a rejected call: every catch on the way logs and
\* throws the same error again, so processMessage() rejects with it.
rejected(p, i, err) ==
    [p EXCEPT !.pc = "rejected", !.msg = NoMsg, !.err = [err EXCEPT !.of = i]]

\* The last then of processMessage(), lines 176-178.
fulfilled(p, contactId) ==
    [p EXCEPT !.pc = "fulfilled", !.contactId = contactId,
              !.overtook = \E j \in DOMAIN procs :
                              procs[j].id # p.id /\ procs[j].pc # "fulfilled"
                              /\ \A k \in DOMAIN procs : procs[k].id = p.id => j < k]

\* The pair processMessage() fulfils with
pair(p) == [msgId |-> p.id, contactId |-> p.contactId]

\* PromiseAll as Promise.any would join: fulfilled by the first that fulfils.
PromiseAll_any(b, ps, i) ==
    IF b.state # "pending"
    THEN b
    ELSE IF ps[i].pc = "rejected"
    THEN [state |-> "rejected", err |-> ps[i].err, results |-> <<>>]
    ELSE IF ps[i].pc = "fulfilled"
    THEN [state |-> "fulfilled", err |-> NoErr, results |-> <<pair(ps[i])>>]
    ELSE b

\* PromiseAll as a join that waits for all to settle and keeps the pairs of
\* those that fulfilled.
PromiseAll_settled(b, ps, i) ==
    IF b.state # "pending"
    THEN b
    ELSE IF \A j \in DOMAIN ps : ps[j].pc \in {"fulfilled", "rejected"}
    THEN [state |-> "fulfilled", err |-> NoErr,
          results |-> [j \in 1 .. Len(SelectSeq(ps, LAMBDA q : q.pc = "fulfilled")) |->
                          pair(SelectSeq(ps, LAMBDA q : q.pc = "fulfilled")[j])]]
    ELSE b

\* PromiseAll with each value pushed onto the results as its promise fulfils:
\* the pairs come in the order of completion.
PromiseAll_pushed(b, ps, i) ==
    IF b.state # "pending"
    THEN b
    ELSE IF ps[i].pc = "rejected"
    THEN [state |-> "rejected", err |-> ps[i].err, results |-> <<>>]
    ELSE IF ps[i].pc = "fulfilled"
    THEN [state |-> IF \A j \in DOMAIN ps : ps[j].pc = "fulfilled"
                    THEN "fulfilled" ELSE "pending",
          err |-> NoErr,
          results |-> Append(b.results, pair(ps[i]))]
    ELSE b

\* Promise.all(p) of the processMessage() promises ps, b being its state
\* before: it rejects with the first rejection, it fulfils when all have, with
\* the values in the order of p.
PromiseAll(b, ps, i) ==
    IF b.state # "pending"
    THEN b
    ELSE IF ps[i].pc = "rejected"
    THEN [state |-> "rejected", err |-> ps[i].err, results |-> <<>>]
    ELSE IF \A j \in DOMAIN ps : ps[j].pc = "fulfilled"
    THEN [state |-> "fulfilled", err |-> NoErr,
          results |-> [j \in DOMAIN ps |-> pair(ps[j])]]
    ELSE b

\* The last two handlers of the driver, lines 193-198.
driver_last(old, new) ==
    IF new.state = old.state
    THEN UNCHANGED <<console, mainPc>>
    ELSE IF new.state = "fulfilled"
    THEN /\ console' = [kind |-> "results", err |-> NoErr, results |-> new.results]
         /\ mainPc' = "done"
    ELSE driver_catch(new.err)

\* step with a rejection that also gives up every call still pending.
step_cancelling(i, p) ==
    LET ps == [j \in DOMAIN procs |->
                 IF j = i THEN p
                 ELSE IF p.pc = "rejected" /\ procs[j].pc \notin {"fulfilled", "rejected"}
                 THEN [procs[j] EXCEPT !.pc = "rejected", !.msg = NoMsg, !.err = p.err]
                 ELSE procs[j]]
    IN
    /\ procs' = ps
    /\ batch' = PromiseAll(batch, ps, i)
    /\ driver_last(batch, batch')

\* processMessage() number i moves to p.
step(i, p) ==
    LET ps == [procs EXCEPT ![i] = p] IN
    /\ procs' = ps
    /\ batch' = PromiseAll(batch, ps, i)
    /\ driver_last(batch, batch')

\* users.messages.list calls back: the then of getMessageList(), then the
\* driver's second then starts one processMessage() per id and joins them.
getMessageList ==
    /\ mainPc = "getMessageList"
    /\ \E r \in ListResponses :
         IF r.failed
         THEN /\ driver_catch(Err("Error", "none", "gmail api error", 0, "getMessageList"))
              /\ UNCHANGED <<msgs, procs, batch>>
         ELSE IF ~r.hasMessages
         THEN /\ driver_catch(Err("TypeError", "none", "Cannot read property of undefined",
                                  0, "driver"))
              /\ UNCHANGED <<msgs, procs, batch>>
         ELSE /\ msgs' = r.messages
              /\ procs' = [i \in DOMAIN r.messages |-> processMessage(r.messages[i])]
              /\ IF r.messages = <<>>
                 THEN /\ batch' = [state |-> "fulfilled", err |-> NoErr, results |-> <<>>]
                      /\ console' = [kind |-> "results", err |-> NoErr, results |-> <<>>]
                      /\ mainPc' = "done"
                 ELSE /\ batch' = [state |-> "pending", err |-> NoErr, results |-> <<>>]
                      /\ mainPc' = "batch"
                      /\ UNCHANGED console
    /\ UNCHANGED <<tokenReqs, workItems>>
    /\ UNCHANGED authVars

\* getMessage with a client whose credentials are set again by each fetch.
getMessage_reauthorizing(i) ==
    /\ procs[i].pc = "getMessage"
    /\ \E r \in MessageResponses(procs[i].id) :
         LET got == getMessage_then(r) IN
         IF got.ok
         THEN /\ step(i, sendEmail(procs[i], got.msg, i))
              /\ tokenReqs' = tokenReqs + 1
         ELSE /\ step(i, rejected(procs[i], i, got.err))
              /\ UNCHANGED tokenReqs
    /\ oAuth2Client' = [oAuth2Client EXCEPT !.credentials = NoToken]
    /\ UNCHANGED <<msgs, workItems>>
    /\ UNCHANGED <<credentialFile, tokenFile, tokenFile0, authPc, authErr, raised,
                   handshake, prompts, exchanges, writes>>

\* users.messages.get calls back for processMessage() number i.
getMessage(i) ==
    /\ procs[i].pc = "getMessage"
    /\ \E r \in MessageResponses(procs[i].id) :
         LET got == getMessage_then(r) IN
         IF got.ok
         THEN /\ step(i, sendEmail(procs[i], got.msg, i))
              /\ tokenReqs' = tokenReqs + 1
         ELSE /\ step(i, rejected(procs[i], i, got.err))
              /\ UNCHANGED tokenReqs
    /\ UNCHANGED <<msgs, workItems>>
    /\ UNCHANGED authVars

\* The token endpoint responds to the getToken() of processMessage() number i.
getToken(i) ==
    /\ procs[i].pc = "getToken"
    /\ \E r \in FetchResponses :
         LET got == response_then(r, "getToken")
             p == [procs[i] EXCEPT !.tokenResponse = r]
         IN  IF got.ok
             THEN step(i, [p EXCEPT !.pc = "getToken_json"])
             ELSE step(i, rejected(p, i, got.err))
    /\ UNCHANGED <<msgs, tokenReqs, workItems>>
    /\ UNCHANGED authVars

\* The body of the token response has been read.
getToken_json(i) ==
    /\ procs[i].pc = "getToken_json"
    /\ \E body \in TokenBodies(procs[i].tokenReq) :
         LET got == getToken_then(body)
             p == [procs[i] EXCEPT !.data = body]
         IN  IF got.ok
             THEN step(i, sendEmail_then(p, body))
             ELSE step(i, rejected(p, i, got.err))
    /\ UNCHANGED <<msgs, tokenReqs, workItems>>
    /\ UNCHANGED authVars

\* The work-item endpoint responds to the post of processMessage() number i.
\* An ok response means the server has created the work item.
postWorkItem(i) ==
    /\ procs[i].pc = "postWorkItem"
    /\ \E r \in FetchResponses :
         LET got == response_then(r, "postWorkItem")
             p == [procs[i] EXCEPT !.postResponse = r]
         IN
         IF got.ok
         THEN /\ step(i, [p EXCEPT !.pc = "postWorkItem_json", !.msg = NoMsg])
              /\ workItems' = workItems \cup
                    {[workItemId |-> procs[i].msg.id, of |-> i,
                      afterFailure |-> batch.state = "rejected"]}
         ELSE /\ step(i, rejected(p, i, got.err))
              /\ UNCHANGED workItems
    /\ UNCHANGED <<msgs, tokenReqs>>
    /\ UNCHANGED authVars

\* The body of the work-item response has been read.
postWorkItem_json(i) ==
    /\ procs[i].pc = "postWorkItem_json"
    /\ \E body \in WorkItemBodies :
         LET got == postWorkItem_then(body)
             p == [procs[i] EXCEPT !.json = body]
         IN  IF got.ok
             THEN step(i, fulfilled(p, got.contactId))
             ELSE step(i, rejected(p, i, got.err))
    /\ UNCHANGED <<msgs, tokenReqs, workItems>>
    /\ UNCHANGED authVars

---------------------------------------------------------------------------

Next ==
    \/ authorize
    \/ authorize_readCredential
    \/ authorize_readToken
    \/ _ask
    \/ _getNewToken_exchange
    \/ _getNewToken_write
    \/ getMessageList
    \/ \E i \in DOMAIN procs : getMessage(i)
    \/ \E i \in DOMAIN procs : getToken(i)
    \/ \E i \in DOMAIN procs : getToken_json(i)
    \/ \E i \in DOMAIN procs : postWorkItem(i)
    \/ \E i \in DOMAIN procs : postWorkItem_json(i)

Spec == Init /\ [][Next]_vars

\* One run in which calls go on being answered: as long as some call is
\* pending (a file operation, the operator's input, a request to an endpoint,
\* the reading of a body), one of the pending calls completes.
FairSpec == Init /\ [][Next]_vars /\ WF_vars(Next)

\* The process has ended (the chain is over and no call is pending) and the
\* program is started again with the same configuration: the two files are
\* what the run before left, everything else is constructed anew.
nextRun ==
    /\ mainPc = "done"
    /\ \A i \in DOMAIN procs : procs[i].pc \in {"fulfilled", "rejected"}
    /\ tokenFile0' = tokenFile
    /\ oAuth2Client' = NullClient
    /\ authPc' = "new"
    /\ authErr' = NoErr
    /\ raised' = NoErr
    /\ handshake' = 0
    /\ prompts' = 0
    /\ exchanges' = 0
    /\ writes' = 0
    /\ mainPc' = "start"
    /\ msgs' = <<>>
    /\ procs' = <<>>
    /\ tokenReqs' = 0
    /\ workItems' = {}
    /\ batch' = NoBatch
    /\ console' = NoOutput
    /\ UNCHANGED <<credentialFile, tokenFile>>

NextRuns == Next \/ nextRun

\* Runs of the program one after the other
SpecRuns == Init /\ [][NextRuns]_vars

---------------------------------------------------------------------------
\* Properties of authorize()

\* The credential file is there, readable, and holds the credentials.
ValidCredentials ==
    credentialFile = [exists |-> TRUE, readable |-> TRUE,
                      content |-> JSONstringify("credentials")]

\* The token file was there, readable and JSON when the run started.
WellFormedToken == tokenFile0.exists /\ tokenFile0.readable /\ tokenFile0.content.json

authorizeSettled == authPc \in {"resolved", "rejected"}

\* The code-for-token exchange of this run succeeded.
exchanged == oAuth2Client.credentials = NewToken

\* C1 as stated: with a valid credential file and no token file, a run of
\* authorize() has put exactly one prompt and issued exactly one write of the
\* token file.
C1_OnePromptOneWrite ==
    (ValidCredentials /\ ~tokenFile0.exists /\ authorizeSettled)
        => prompts = 1 /\ writes = 1

\* C1 amended: with a valid credential file and no token file, authorize()
\* puts exactly one prompt; it issues exactly one write of the token file when
\* the exchange of the code succeeded and none when it failed.
C1_OnePromptWriteIfExchanged ==
    (ValidCredentials /\ ~tokenFile0.exists)
        => /\ prompts <= 1
           /\ writes <= 1
           /\ authorizeSettled
                => /\ prompts = 1
                   /\ exchanges = 1
                   /\ writes = IF exchanged THEN 1 ELSE 0

C1_Witness ==
    /\ ValidCredentials
    /\ ~tokenFile0.exists
    /\ authPc = "resolved"
    /\ prompts = 1
    /\ writes = 1
    /\ tokenFile.exists

\* C2: with a valid credential file and a well-formed token file, authorize()
\* never starts the handshake (no prompt, no exchange, no write of the token
\* file) and settles only by resolving, with the stored token applied.
C2_LoadPath ==
    (ValidCredentials /\ WellFormedToken)
        => /\ handshake = 0
           /\ prompts = 0
           /\ exchanges = 0
           /\ writes = 0
           /\ tokenFile = tokenFile0
           /\ authPc # "rejected"
           /\ authPc = "resolved"
                => oAuth2Client = [created |-> TRUE, credentials |-> StoredToken]

C2_Witness ==
    /\ ValidCredentials
    /\ WellFormedToken
    /\ authPc = "resolved"
    /\ oAuth2Client.credentials = StoredToken
    /\ mainPc = "getMessageList"

\* The read of the token file failed because the file is not there.
tokenNotFound == raised.code = "ENOENT" /\ raised.where = "tokenFile"

\* Loading failed: the first error of authorize() came from reading or parsing
\* one of the two files.
loadFailed == raised.where \in {"credentialFile", "tokenFile"}

\* C3: the handshake is entered only when the read of the token file failed
\* with ENOENT; after any other failure of loading authorize() rejects with
\* the very error that was raised and the handshake is not entered.
C3_HandshakeOnlyOnTokenNotFound ==
    /\ handshake > 0 => tokenNotFound
    /\ (authorizeSettled /\ loadFailed /\ ~tokenNotFound)
          => /\ authPc = "rejected"
             /\ authErr = raised
             /\ handshake = 0

---------------------------------------------------------------------------
\* Properties of the batch

Procs == DOMAIN procs

\* The listing returned ids and the driver has started the batch
listed == batch.state # "none"

\* gmail.getMessage() of this processMessage() has resolved
fetched(p) == p.pc # "getMessage" /\ ~(p.pc = "rejected" /\ p.err.where = "getMessage")

\* C4: when the listing returned N ids and every processMessage() has
\* fulfilled, the batch is fulfilled and the printed result holds exactly N
\* pairs, one for each listed id.
C4_AllSucceed ==
    (listed /\ \A i \in Procs : procs[i].pc = "fulfilled")
        => /\ batch.state = "fulfilled"
           /\ console.kind = "results"
           /\ console.results = batch.results
           /\ Len(console.results) = Len(msgs)
           /\ \A i \in DOMAIN msgs :
                Cardinality({k \in DOMAIN console.results :
                                console.results[k].msgId = msgs[i]}) = 1

C4_Witness ==
    /\ Len(msgs) >= 2
    /\ \A i \in Procs : procs[i].pc = "fulfilled"
    /\ console.kind = "results"
    /\ Len(console.results) = Len(msgs)

\* C5: once the fetch, the token request or the post of one listed message has
\* failed, the batch is rejected, the driver has printed the error, and no
\* list of pairs is the result of the batch or printed.
C5_FailureFailsBatch ==
    (\E i \in Procs : procs[i].pc = "rejected")
        => /\ batch.state = "rejected"
           /\ batch.results = <<>>
           /\ console.kind = "error"
           /\ console.results = <<>>

C5_Witness ==
    /\ batch.state = "rejected"
    /\ \E i, j \in Procs : procs[i].pc = "rejected" /\ procs[j].pc = "fulfilled"

\* C6: a step changes only the processMessage() whose call completed, and only
\* while that one is still pending: the rejection of one neither settles nor
\* alters another, a work item once created stays, and a rejected batch stays
\* as it is.
C6_NoCancelNoRollback ==
    [][ /\ workItems \subseteq workItems'
        /\ batch.state = "rejected" => batch' = batch
        /\ \A i \in Procs :
             procs'[i] # procs[i]
                => /\ procs[i].pc \notin {"fulfilled", "rejected"}
                   /\ \A j \in Procs \ {i} : procs'[j] = procs[j] ]_vars

\* A work item of another message was created after the batch was rejected.
C6_Witness ==
    /\ batch.state = "rejected"
    /\ console.kind = "error"
    /\ \E w \in workItems : w.afterFailure /\ w.of # batch.err.of

\* C7: a post is issued with the token that the getToken() request of the same
\* processMessage() obtained, made after its fetch; no two posts share a
\* token; there are as many getToken() requests as fetched messages.
C7_FreshToken ==
    /\ \A i \in Procs :
         LET p == procs[i] IN
         /\ p.tokens = IF fetched(p) THEN 1 ELSE 0
         /\ p.tokens > 0 => p.tokenReq = i
         /\ p.posts > 0
              => /\ p.tokens > 0
                 /\ p.token # 0
                 /\ p.token = p.tokenReq
                 /\ p.token = p.data.access_token
         /\ \A j \in Procs \ {i} :
              (p.posts > 0 /\ procs[j].posts > 0) => p.token # procs[j].token
    /\ tokenReqs = Cardinality({i \in Procs : fetched(procs[i])})

C7_Witness ==
    /\ tokenReqs >= 2
    /\ \E i, j \in Procs :
         /\ i # j
         /\ procs[i].posts > 0
         /\ procs[j].posts > 0
         /\ procs[i].token = i
         /\ procs[j].token = j

\* C8: for each listed id the fetch, the token request and the post are issued
\* at most once, at most one work item is created, and a processMessage() that
\* fulfilled made exactly one post, which created exactly one work item.
C8_AtMostOnce ==
    /\ \A i \in Procs :
         LET p == procs[i]
             made == {w \in workItems : w.of = i}
         IN  /\ p.gets <= 1
             /\ p.tokens <= 1
             /\ p.posts <= 1
             /\ Cardinality(made) <= p.posts
             /\ p.pc = "fulfilled"
                  => /\ p.gets = 1
                     /\ p.tokens = 1
                     /\ p.posts = 1
                     /\ Cardinality(made) = 1
                     /\ \A w \in made : w.workItemId = p.id
    /\ \A v, w \in workItems : v.workItemId = w.workItemId => v.of = w.of

C8_Witness ==
    \E i, j \in Procs :
        /\ procs[i].pc = "fulfilled"
        /\ procs[i].posts = 1
        /\ procs[j].pc = "rejected"
        /\ procs[j].err.where = "postWorkItem"
        /\ procs[j].posts = 1

\* The token endpoint's answer was no successful response
tokenNotOk(p) ==
    /\ p.tokenResponse # NoResponse
    /\ p.tokenResponse.failed \/ ~responseOk(p.tokenResponse.status)

\* The body of the token response lacks the token or the uri
tokenLacking(p) ==
    /\ p.data # NoData
    /\ p.data.json
    /\ p.data.null \/ p.data.access_token = 0 \/ p.data.resource_server_base_uri = ""

getTokenFailed(p) == p.pc = "rejected" /\ p.err.where = "getToken"

\* C9: getToken() rejects whenever the response is not successful and whenever
\* a successful response lacks the token or the uri; a post is issued only
\* after a successful response that carries both; after a failed getToken()
\* no post is issued and no work item is created for the message.
C9_GetTokenFailures ==
    \A i \in Procs :
        LET p == procs[i] IN
        /\ tokenNotOk(p) => getTokenFailed(p)
        /\ tokenLacking(p)
             => getTokenFailed(p) /\ p.err.message = "missing token and/or uri"
        /\ p.posts > 0
             => /\ ~p.tokenResponse.failed
                /\ responseOk(p.tokenResponse.status)
                /\ p.data.json
                /\ ~p.data.null
                /\ p.data.access_token # 0
                /\ p.data.resource_server_base_uri # ""
        /\ getTokenFailed(p)
             => /\ p.posts = 0
                /\ p.postResponse = NoResponse
                /\ \A w \in workItems : w.of # i

\* getToken() failed on a successful response that carries the token and lacks
\* the uri, and on an unsuccessful response.
C9_Witness ==
    \E i, j \in Procs :
        /\ getTokenFailed(procs[i])
        /\ procs[i].data.access_token # 0
        /\ procs[i].data.resource_server_base_uri = ""
        /\ procs[i].posts = 0
        /\ getTokenFailed(procs[j])
        /\ procs[j].tokenResponse.status = 500

\* The work-item endpoint answered with a status that is not 2xx
postNotOk(p) ==
    /\ p.postResponse # NoResponse
    /\ ~p.postResponse.failed
    /\ ~responseOk(p.postResponse.status)

\* The error postWorkItem() throws for the response of processMessage() i
postError(i) ==
    [Err("Error", "none", "response status", procs[i].postResponse.status, "postWorkItem")
       EXCEPT !.of = i]

\* C10 as stated: after a non-2xx response postWorkItem() has thrown the error
\* with that status, processMessage() has rejected with it, and it is the
\* error the batch rejected with and the driver printed.
C10_SameErrorEverywhere ==
    \A i \in Procs :
        postNotOk(procs[i])
            => /\ procs[i].pc = "rejected"
               /\ procs[i].err = postError(i)
               /\ batch.state = "rejected"
               /\ batch.err = procs[i].err
               /\ console.err = procs[i].err

\* C10 amended: after a non-2xx response postWorkItem() has thrown the error
\* with that status and processMessage() has rejected with it; the batch
\* rejects with it, and the driver prints it, when the batch was still pending
\* (it is the first failure); a batch already rejected keeps the error of the
\* processMessage() that failed first.
C10_SameErrorFirstFailure ==
    /\ [](\A i \in Procs :
            postNotOk(procs[i])
                => /\ procs[i].pc = "rejected"
                   /\ procs[i].err = postError(i)
                   /\ batch.state = "rejected"
                   /\ console.kind = "error"
                   /\ console.err = batch.err
                   /\ procs[batch.err.of].pc = "rejected"
                   /\ batch.err = procs[batch.err.of].err)
    /\ [][\A i \in Procs :
            (~postNotOk(procs[i]) /\ postNotOk(procs[i])')
                => IF batch.state = "pending"
                   THEN batch'.err = procs'[i].err /\ console'.err = procs'[i].err
                   ELSE batch' = batch /\ console' = console]_vars

C10_Witness ==
    \E i, j \in Procs :
        /\ postNotOk(procs[i])
        /\ procs[i].err.status = 404
        /\ batch.err = procs[i].err
        /\ console.err = procs[i].err
        /\ postNotOk(procs[j])
        /\ procs[j].err.status = 500
        /\ batch.err # procs[j].err

\* The body of the work-item response was read and is an object
postAnswered(p) == p.json # NoJson /\ p.json.json /\ ~p.json.null

\* C11: after a successful response whose body is an object, postWorkItem()
\* has resolved with the body's contactId as it is, "undefined" when the body
\* has none: processMessage() is fulfilled with it, and a fulfilled batch
\* prints it in the pair of that message.
C11_ContactIdVerbatim ==
    /\ \A i \in Procs :
         postAnswered(procs[i])
            => /\ procs[i].pc = "fulfilled"
               /\ procs[i].contactId = procs[i].json.contactId
    /\ batch.state = "fulfilled"
         => \A i \in Procs :
              /\ postAnswered(procs[i])
              /\ console.results[i].contactId = procs[i].json.contactId

\* The batch succeeded with a pair whose contactId is undefined.
C11_Witness ==
    /\ batch.state = "fulfilled"
    /\ console.kind = "results"
    /\ \E i \in Procs :
         /\ procs[i].json.contactId = "undefined"
         /\ console.results[i] = [msgId |-> msgs[i], contactId |-> "undefined"]

---------------------------------------------------------------------------
\* Properties of the driver chain

\* getMessageList() has been called: the driver calls it in the turn in which
\* authorize() resolves.
listIssued == authPc = "resolved"

\* getMessageList() rejected, or what it resolved with could not be walked:
\* the call is over and no batch was started.
listFailed == listIssued /\ mainPc # "getMessageList" /\ ~listed

\* Some step of the run has failed
failed == authPc = "rejected" \/ listFailed \/ \E i \in Procs : procs[i].pc = "rejected"

\* C12: once authorize(), the listing or a processMessage() has failed, the
\* driver's catch has run: the chain is over, an error is printed (that of
\* authorize(), or the one the batch rejected with) and no result list is.
C12_FailureIsCaught ==
    failed
        => /\ mainPc = "done"
           /\ console.kind = "error"
           /\ console.err # NoErr
           /\ console.results = <<>>
           /\ authPc = "rejected" => console.err = authErr
           /\ listFailed => console.err.where \in {"getMessageList", "driver"}
           /\ listed => batch.state = "rejected" /\ console.err = batch.err

\* Two messages failed: the first failure was printed, the second was taken by
\* the join without a further print.
C12_Witness ==
    /\ mainPc = "done"
    /\ console.kind = "error"
    /\ \E i, j \in Procs :
         /\ i # j
         /\ procs[i].pc = "rejected"
         /\ procs[j].pc = "rejected"
         /\ console.err = procs[i].err
         /\ console.err # procs[j].err

---------------------------------------------------------------------------
\* Properties of the token file across runs (SpecRuns)

\* The token file as the handshake leaves it
written(token) == [exists |-> TRUE, readable |-> TRUE, content |-> JSONstringify(token)]

\* authorize() of this run resolved through the handshake
handshakeDone == authPc = "resolved" /\ handshake > 0

\* This run started on a token file a handshake of an earlier run wrote
afterHandshake == tokenFile0 = written(NewToken)

\* C13: after authorize() resolved through the handshake the token file holds
\* the token of that handshake, and the next run starts on that file with the
\* same credential file; a run that starts on it takes the load path, applies
\* that token and puts no prompt; the token file changes only in the write of
\* the handshake.
C13_TokenPersists ==
    /\ [](handshakeDone
            => tokenFile = written(oAuth2Client.credentials) /\ exchanged)
    /\ [][(handshakeDone /\ mainPc' = "start")
            => /\ tokenFile0' = written(oAuth2Client.credentials)
               /\ credentialFile' = credentialFile]_vars
    /\ [](afterHandshake
            => /\ handshake = 0
               /\ prompts = 0
               /\ exchanges = 0
               /\ writes = 0
               /\ authPc # "rejected"
               /\ authPc = "resolved" => oAuth2Client.credentials = NewToken)
    /\ [][tokenFile' # tokenFile
            => /\ authPc = "writeFile"
               /\ handshake = 1
               /\ oAuth2Client.credentials = NewToken]_vars

\* A later run has loaded the token an earlier handshake wrote.
C13_Witness ==
    /\ afterHandshake
    /\ authPc = "resolved"
    /\ oAuth2Client.credentials = NewToken
    /\ prompts = 0
    /\ tokenFile = tokenFile0

---------------------------------------------------------------------------
\* Properties of getMessage()

\* users.messages.get has called back with the message of this processMessage()
retrieved(p) ==
    /\ p.pc # "getMessage"
    /\ ~(p.pc = "rejected" /\ p.err.where = "getMessage" /\ p.err.name = "Error")

\* C14: getMessage() resolves for every message that was retrieved, with
\* from = "" when the sender holds no address and payload = "" when the body
\* holds no data, and the message goes on to sendEmail(): a retrieved message
\* is never rejected by getMessage(), and what is posted carries an address or
\* "" as from and the decoded body or "" as payload.
C14_NoAddressNoBody ==
    \A i \in Procs :
        LET p == procs[i] IN
        /\ retrieved(p) => fetched(p) /\ p.tokens = 1
        /\ p.pc = "postWorkItem"
             => /\ p.msg.id = p.id
                /\ p.msg.from \in Addresses \cup {""}
                /\ p.msg.payload \in {atob(d) : d \in BodyData \ {""}} \cup {""}

---------------------------------------------------------------------------
\* The order of the operations

\* getToken() of processMessage() p has resolved: an ok response whose body
\* holds the token and the uri
tokenObtained(p) ==
    /\ ~p.tokenResponse.failed
    /\ responseOk(p.tokenResponse.status)
    /\ p.data.json /\ ~p.data.null
    /\ p.data.access_token # 0 /\ p.data.resource_server_base_uri # ""

\* authorize() or the listing has failed
noBatch == authPc = "rejected" \/ listFailed

\* C15: the listing is issued only after authorize() has resolved, the
\* fetches only after the listing has resolved; for each message the token
\* request only after its fetch has resolved, and the post only after its
\* token request has resolved.  When authorize() or the listing fails no
\* fetch, token request or post is ever issued.
C15_Ordered ==
    /\ mainPc = "getMessageList" \/ listed \/ listFailed => authPc = "resolved"
    /\ procs # <<>> => listed /\ Len(procs) = Len(msgs)
    /\ \A i \in Procs :
         LET p == procs[i] IN
         /\ p.gets = 1
         /\ p.tokens > 0 => fetched(p)
         /\ p.posts > 0 => p.tokens > 0 /\ tokenObtained(p)
         /\ p.pc \in {"getToken", "getToken_json"} => p.tokens = 1 /\ p.posts = 0
         /\ p.pc \in {"postWorkItem", "postWorkItem_json", "fulfilled"} => p.posts = 1
    /\ tokenReqs > 0 => \E i \in Procs : procs[i].tokens > 0
    /\ \A w \in workItems : w.of \in Procs /\ procs[w.of].posts > 0
    /\ noBatch => procs = <<>> /\ tokenReqs = 0 /\ workItems = {} /\ mainPc = "done"

\* A post is pending for one message while the fetch of another is pending.
C15_Witness ==
    /\ authPc = "resolved"
    /\ \E i, j \in Procs :
         /\ procs[i].pc = "postWorkItem" /\ procs[i].posts = 1
         /\ procs[j].pc = "getMessage" /\ procs[j].tokens = 0

---------------------------------------------------------------------------
\* The client after authorize()

\* C16: once authorize() has settled, no later step of the run (the listing,
\* a fetch, a token request, a post, the reading of a body) changes the
\* OAuth2 client or the credentials set on it, in whatever order the calls of
\* the messages complete.
C16_ClientReadOnly ==
    [][authorizeSettled => oAuth2Client' = oAuth2Client]_vars

\* Two messages have been through fetch, token request and post in the order
\* opposite to the listing, under the client authorize() left.
C16_Witness ==
    /\ authPc = "resolved"
    /\ oAuth2Client.created /\ oAuth2Client.credentials # NoToken
    /\ Len(procs) = 2
    /\ procs[2].pc = "fulfilled"
    /\ procs[1].pc = "postWorkItem_json"

---------------------------------------------------------------------------
\* The exchange of the handshake

\* The exchange of the code for a token has failed
exchangeFailed == authErr.where = "getToken"

\* C17: when the exchange of the code fails, authorize() rejects with the
\* error of the exchange, no token is set on the client, no write of the token
\* file is issued and the file stays absent.  A write is issued only after an
\* exchange that gave a token and with that token set on the client, and the
\* token file changes only by such a write.
C17_ExchangeFailure ==
    /\ exchangeFailed
         => /\ authPc = "rejected"
            /\ authErr = Err("Error", "none", "invalid_grant", 0, "getToken")
            /\ console.kind = "error" /\ console.err = authErr
            /\ exchanges = 1
            /\ oAuth2Client.credentials = NoToken
            /\ writes = 0
            /\ tokenFile = tokenFile0 /\ ~tokenFile.exists
    /\ writes > 0 => exchanges = 1 /\ ~exchangeFailed /\ exchanged
    /\ authPc = "writeFile" => writes = 1 /\ tokenFile = tokenFile0 /\ ~tokenFile.exists
    /\ tokenFile # tokenFile0 => writes = 1 /\ exchanged /\ tokenFile = written(NewToken)

\* The operator's code was refused: authorize() has rejected on the handshake
\* path after its one exchange.
C17_Witness ==
    /\ exchangeFailed
    /\ handshake = 1 /\ prompts = 1 /\ exchanges = 1
    /\ authPc = "rejected"
    /\ mainPc = "done"

---------------------------------------------------------------------------
\* The order of the results

\* C18: when the batch fulfils, its results (and what is printed) hold one
\* pair per listed message in the order of the listing, whatever the order
\* in which the processMessage() calls completed: pair i holds the i-th
\* listed id and the contactId read from the response to the post made for
\* that message.
C18_ResultsInListingOrder ==
    batch.state = "fulfilled"
        => /\ Len(batch.results) = Len(msgs)
           /\ console.kind = "results" /\ console.results = batch.results
           /\ \A i \in DOMAIN msgs :
                /\ batch.results[i].msgId = msgs[i]
                /\ procs[i].id = msgs[i]
                /\ batch.results[i].contactId = procs[i].json.contactId
                /\ \E w \in workItems : w.of = i /\ w.workItemId = msgs[i]

\* The batch has fulfilled with two different contact ids, the message listed
\* second having completed before the one listed first.
C18_Witness ==
    /\ batch.state = "fulfilled"
    /\ Len(msgs) = 2
    /\ procs[2].overtook
    /\ batch.results[1].contactId \in ContactIds
    /\ batch.results[2].contactId \in ContactIds \ {batch.results[1].contactId}

---------------------------------------------------------------------------
\* The end of a run

\* The driver's chain has ended with one of its two outputs
ended == mainPc = "done" /\ console.kind \in {"results", "error"}

\* C19: when every pending call is answered in the end, the run comes to
\* print the results or to log an error in the driver's catch, and it does
\* only one of the two, once; the results are printed only when every
\* processMessage() has fulfilled.
C19_RunEnds ==
    /\ <>ended
    /\ [](mainPc = "done" <=> console # NoOutput)
    /\ [][console # NoOutput => console' = console]_vars
    /\ [](console.kind = "results"
            => /\ batch.state = "fulfilled"
               /\ Len(procs) = Len(msgs)
               /\ \A i \in Procs : procs[i].pc = "fulfilled")
    /\ [](console.kind = "error" => failed /\ console.err # NoErr)

\* The results of two messages have been printed.
C19_Witness ==
    /\ ended
    /\ console.kind = "results"
    /\ Len(console.results) = 2
    /\ \A i \in Procs : procs[i].pc = "fulfilled"

===========================================================================
